---- MODULE Spec2Model ----
(***************************************************************************)
(* Retrieval and ranking engine of the music recommendation backend:       *)
(* text normalisation, title ranking, the cached text search model, the    *)
(* live candidate-pool style recommendation and the song recognition       *)
(* cascade.                                                                *)
(*                                                                         *)
(* Strings are sequences of characters; a character is a one-symbol        *)
(* string, "a_acute" is the precomposed accented letter and "acute" the    *)
(* combining mark NFKD decomposes it into.                                 *)
(***************************************************************************)
EXTENDS Integers, Sequences, FiniteSets, TLC

\* ------------------------------------------------------------------------
\* Bounds of the model
\* ------------------------------------------------------------------------
\* longest list a catalog search answers with
MaxTracks == 2
\* largest limit passed to a search
MaxLimit == 1
\* number of predict calls made on one search model
MaxCalls == 2
\* number of track ids of the catalog seen by the recommendation engine
NumIds == 3
\* largest candidate_limit and top_k of a recommendation request
MaxCandLimit == 2
\* longest list the related-track and chart endpoints answer with
MaxResp == 1

\* largest candidate pool scored in two orders
MaxPool == 2

\* number of requests and script runs that use the index at the same time
NumProcs == 2

\* number of track ids the concurrent requests and runs are given
NumIndexIds == 1

\* batch_size of get_top_tracks and the cap of get_chart_tracks (100), scaled
BatchSize == 2

\* largest total_count of a get_top_tracks call
MaxTotal == 4

\* longest list the chart endpoint answers one request with
MaxBatch == 3

\* number of genre ids the catalog uses besides 0
NumGenres == 2

\* longest track_ids list of an add_tracks_to_database request
MaxRequest == 2

\* ------------------------------------------------------------------------
\* Generic helpers
\* ------------------------------------------------------------------------
SetMin(S) == CHOOSE x \in S : \A y \in S : x <= y

SetMax(S) == CHOOSE x \in S : \A y \in S : x >= y

Max2(a, b) == IF a >= b THEN a ELSE b

Min2(a, b) == IF a <= b THEN a ELSE b

\* s[:n] of Python for n >= 0
Prefix(s, n) == SubSeq(s, 1, Min2(n, Len(s)))

\* sequences over S without repetition, of length at most n
DistinctSeqs(S, n) ==
  UNION { { s \in [1..k -> S] : \A i, j \in 1..k : i # j => s[i] # s[j] } : k \in 0..n }

\* a descending sort that puts the later of two elements with equal keys first
SortDescTiesReversed(s, gt) ==
  LET n == Len(s)
      pos == [i \in 1..n |-> 1 + Cardinality({ j \in 1..n :
                       gt[j][i] \/ (~gt[i][j] /\ j > i) })]
  IN  [p \in 1..n |-> s[CHOOSE i \in 1..n : pos[i] = p]]

\* sorted(s, key=..., reverse=True): gt[i][j] says that the key of s[i] is
\* greater than the key of s[j]; elements with equal keys keep their order.
StableSortDesc(s, gt) ==
  LET n == Len(s)
      pos == [i \in 1..n |-> 1 + Cardinality({ j \in 1..n :
                       gt[j][i] \/ (~gt[i][j] /\ j < i) })]
  IN  [p \in 1..n |-> s[CHOOSE i \in 1..n : pos[i] = p]]

\* ------------------------------------------------------------------------
\* Text normaliser
\* ------------------------------------------------------------------------
\* unicodedata.normalize("NFKD", c) of one character
Decompose(c) == IF c = "a_acute" THEN <<"a", "acute">> ELSE <<c>>

\* unicodedata.combining(c) # 0
Combining(c) == c = "acute"

IsSpace(c) == c = " "

\* str.casefold of one character
Casefold(c) == IF c = "A" THEN "a" ELSE IF c = "B" THEN "b" ELSE c

RECURSIVE NFKD(_)
NFKD(s) == IF s = <<>> THEN <<>> ELSE Decompose(Head(s)) \o NFKD(Tail(s))

\* str.strip()
Strip(s) ==
  LET keep == { i \in 1..Len(s) : ~IsSpace(s[i]) }
  IN  IF keep = {} THEN <<>> ELSE SubSeq(s, SetMin(keep), SetMax(keep))

Normalize(value) ==
  LET decomposed == NFKD(value)
      stripped == Strip(SelectSeq(decomposed, LAMBDA c : ~Combining(c)))
  IN  [i \in 1..Len(stripped) |-> Casefold(stripped[i])]

\* ------------------------------------------------------------------------
\* difflib.SequenceMatcher(None, a, b).ratio()
\* ------------------------------------------------------------------------
\* a[i+1 .. i+k] = b[j+1 .. j+k]  (0-based block start, as in difflib)
BlockMatches(a, b, i, j, k) == \A d \in 1..k : a[i + d] = b[j + d]

\* find_longest_match(alo, ahi, blo, bhi): the longest matching block, the
\* one starting earliest in a, then earliest in b; <<alo, blo, 0>> if none.
FindLongestMatch(a, b, alo, ahi, blo, bhi) ==
  LET blocks == { t \in (alo..(ahi - 1)) \X (blo..(bhi - 1)) \X (1..Max2(ahi - alo, 0)) :
                    /\ t[1] + t[3] <= ahi
                    /\ t[2] + t[3] <= bhi
                    /\ BlockMatches(a, b, t[1], t[2], t[3]) }
  IN  IF blocks = {} THEN <<alo, blo, 0>>
      ELSE LET k == SetMax({ t[3] : t \in blocks })
               i == SetMin({ t[1] : t \in { u \in blocks : u[3] = k } })
               j == SetMin({ t[2] : t \in { u \in blocks : u[3] = k /\ u[1] = i } })
           IN  <<i, j, k>>

\* total size of get_matching_blocks() within a[alo:ahi], b[blo:bhi]
RECURSIVE MatchedChars(_, _, _, _, _, _)
MatchedChars(a, b, alo, ahi, blo, bhi) ==
  LET m == FindLongestMatch(a, b, alo, ahi, blo, bhi)
  IN  IF m[3] = 0 THEN 0
      ELSE m[3]
           + (IF alo < m[1] /\ blo < m[2]
                THEN MatchedChars(a, b, alo, m[1], blo, m[2]) ELSE 0)
           + (IF m[1] + m[3] < ahi /\ m[2] + m[3] < bhi
                THEN MatchedChars(a, b, m[1] + m[3], ahi, m[2] + m[3], bhi) ELSE 0)

\* ratio() as the fraction num/den: 2.0 * matches / length, 1.0 when length = 0
Ratio(a, b) ==
  LET length == Len(a) + Len(b)
  IN  IF length = 0 THEN [num |-> 1, den |-> 1]
      ELSE [num |-> 2 * MatchedChars(a, b, 0, Len(a), 0, Len(b)), den |-> length]

\* r1 > r2 for two ratios
RatioGT(r1, r2) == r1.num * r2.den > r2.num * r1.den

\* ------------------------------------------------------------------------
\* The catalog the external API answers from, and the inputs of the calls
\* ------------------------------------------------------------------------
\* raw /search items: id, title and genre_id (0: no genre)
Catalog ==
  { [id |-> 1, title |-> <<"A", "b">>, gid |-> 1],
    [id |-> 2, title |-> <<" ", "a_acute", "b">>, gid |-> 0],
    [id |-> 3, title |-> <<"a", "b", "b">>, gid |-> 1] }

\* the lists a search request can be answered with
Responses == DistinctSeqs(Catalog, MaxTracks)

\* song names and queries handed to the search operations
Queries ==
  { <<>>, <<" ">>, <<"a", "b">>, <<"A", "B", " ">>, <<"a", "b", "b">> }

Limits == 0..MaxLimit

None == "None"

\* ------------------------------------------------------------------------
\* Track ranker
\* ------------------------------------------------------------------------
\* sort_key(track): (exact_match, similarity)
SortKey(query, title) ==
  LET normalized_query == Normalize(query)
      normalized_title == Normalize(title)
  IN  [exact |-> IF normalized_title = normalized_query THEN 1 ELSE 0,
       sim |-> Ratio(normalized_query, normalized_title)]

\* the order reversed: the smaller key first
KeyGTAscending(k1, k2) ==
  \/ k1.exact < k2.exact
  \/ k1.exact = k2.exact /\ RatioGT(k2.sim, k1.sim)

\* comparison of two (exact_match, similarity) tuples under reverse=True
KeyGT(k1, k2) ==
  \/ k1.exact > k2.exact
  \/ k1.exact = k2.exact /\ RatioGT(k1.sim, k2.sim)

\* TrackRanker.rank
Rank(query, tracks) ==
  LET keys == [i \in 1..Len(tracks) |-> SortKey(query, tracks[i].title)]
  IN  StableSortDesc(tracks,
        [i \in 1..Len(tracks) |-> [j \in 1..Len(tracks) |-> KeyGT(keys[i], keys[j])]])

\* Rank over the inputs of the model, computed once
RankPairs == { <<query, tracks, Rank(query, tracks)>> : query \in Queries, tracks \in Responses }

RankTable == [query \in Queries, tracks \in Responses |->
                (CHOOSE p \in RankPairs : p[1] = query /\ p[2] = tracks)[3]]

\* ------------------------------------------------------------------------
\* State
\* ------------------------------------------------------------------------
VARIABLES
  \* -- ranking operations: the last call and what it computed
  rkOp,         \* "none", "rank" (TrackRanker.rank), "ranked" (search_tracks_ranked), "error"
  rkQuery,      \* its query
  rkTracks,     \* the list that was ranked
  rkRanked,     \* the list after the sort
  rkOut,        \* the list returned
  rkRequests,   \* the q parameters of the /search requests it issued
  genreCache,   \* DeezerService._genre_cache
  \* -- DeezerSongSearchModel
  cache,        \* ResultCache._store
  pdPc,         \* "idle", "strict", "relaxed": position of the predict call
  pdSong,       \* song_name of the call in progress or last finished
  pdLimit,      \* limit of that call
  pdCalls,      \* the strict flags of the client calls it has made
  pdStrict,     \* what its strict client call answered
  pdFetched,    \* the tracks it fetched
  pdLog,        \* the finished predict calls: key, outcome, result, client calls
  \* -- StyleRecommendationService / SongRecognitionService: one request
  rcPc,         \* position of the request
  rcSeed,       \* track_id of recommend_by_track_id (0: none yet)
  rcLimit,      \* candidate_limit
  rcTopK,       \* the top_k the return statement has read, 0 before
  rcPool,       \* candidates being collected or scored
  rcSeen,       \* seen_ids
  rcTried,      \* what happened to each candidate visited by the scoring loop
  rcScored,     \* results of _score_candidates so far
  rcFiles,      \* the audio files that exist in the request's temporary directory
  rcWritten,    \* the audio files the request has written
  rcSeedOffered, \* whether a related-track or chart response held the seed
  rcDupOffered, \* whether a response held another id a second time
  rcMeta,       \* what get_track_metadata answered for the seed, "unasked" before
  rcOutcome,    \* "none", "ok", "ValueError", "error"
  rcResult,     \* the list recommend_by_track_id returned
  idGiven,      \* which inputs identify_and_recommend was given
  idCalls,      \* the capabilities the identification has invoked
  idPool,       \* candidates of _identify_from_audio: the chart tracks
  idTried,      \* what happened to each of them, in order
  idBest,       \* best of _identify_from_audio: candidate id (0: None) and similarity
  idMax,        \* <<the largest similarity computed by _identify_from_audio>>, <<>> if none
  idConfidence, \* <<confidence>> returned by _identify_track, <<>> for None
  idEnriched,   \* <<confidence>> attached to the enriched track, <<>> if none
  searchCache,  \* DeezerService._search_cache
  odPc,         \* "none", or "done" once both orderings have been evaluated
  odFirst,      \* scored candidates in the order of a first scoring loop
  odSecond,     \* the same candidates and scores in another order
  odTopK,       \* top_k
  odListFirst,  \* what recommend_by_track_id returns for odFirst
  odListSecond, \* what it returns for odSecond
  odBestFirst,  \* best of _identify_from_audio for odFirst
  odBestSecond, \* best of _identify_from_audio for odSecond
  odIdentified, \* what the audio identification of odFirst ends with: outcome, track, confidence
  ixRecords,    \* the collection: how many records it holds for each track id
  ixFiles,      \* the temporary files of download_preview that exist
  ixPc,         \* where each request or script run stands
  ixTrack,      \* the track id each of them is working on
  ixStatus,     \* what the last turn of the loop did with its track, or the HTTP status
  vdLast,       \* the last VectorDBService call: operation, backend failure, outcome
  tpPc, \* "idle", "loop", "done", "error": position of a get_top_tracks call
  tpTotal, \* its total_count
  tpAll, \* all_tracks: the chart positions fetched so far
  tpIndex, \* index
  tpRequests, \* the chart requests it has issued: limit, index and the number of tracks got (-1: failure)
  tpResult, \* the list it returned
  clGenreCache, \* DeezerClient._genre_cache
  gnAsked, \* how many upstream genre requests get_genre ("service") and _extract_genre ("client") have issued for each genre id
  gnLast, \* the last genre resolution: instance, genre id, value returned
  adIds, \* request.track_ids of one add_tracks_to_database request
  adPos, \* how many of them the loop has taken
  adAdded, \* added_count
  adSkipped, \* skipped_count
  scStore, \* DeezerService._search_cache by (query, limit, strict): the dict each key holds, id 0 for None
  scFirst, \* each of these values as it was when it was stored
  scLast \* the last search_tracks call: its key, whether the cache answered it, what it returned

rankVars == <<rkOp, rkQuery, rkTracks, rkRanked, rkOut, rkRequests, genreCache>>

searchVars == <<cache, pdPc, pdSong, pdLimit, pdCalls, pdStrict, pdFetched, pdLog>>

recVars == <<rcPc, rcSeed, rcLimit, rcTopK, rcPool, rcSeen, rcTried, rcScored,
             rcFiles, rcWritten, rcSeedOffered, rcDupOffered, rcMeta, rcOutcome, rcResult,
             idGiven, idCalls, idPool, idTried, idBest, idMax, idConfidence, idEnriched,
             searchCache>>

idVars == <<idGiven, idCalls, idPool, idTried, idBest, idMax, idConfidence, idEnriched,
           searchCache>>

orderVars == <<odPc, odFirst, odSecond, odTopK, odListFirst, odListSecond, odBestFirst,
              odBestSecond, odIdentified>>

indexVars == <<ixRecords, ixFiles, ixPc, ixTrack, ixStatus>>

topVars == <<tpPc, tpTotal, tpAll, tpIndex, tpRequests, tpResult>>

genreVars == <<clGenreCache, gnAsked, gnLast>>

addVars == <<adIds, adPos, adAdded, adSkipped>>

cacheVars == <<scStore, scFirst, scLast>>

vars == <<rankVars, searchVars, recVars, orderVars, indexVars, vdLast, topVars, genreVars, addVars, cacheVars>>

InitRank ==
  /\ rkOp = "none"
  /\ rkQuery = <<>>
  /\ rkTracks = <<>>
  /\ rkRanked = <<>>
  /\ rkOut = <<>>
  /\ rkRequests = <<>>
  /\ genreCache = (0 :> None)

InitSearch ==
  /\ cache = <<>>
  /\ pdPc = "idle"
  /\ pdSong = <<>>
  /\ pdLimit = 0
  /\ pdCalls = <<>>
  /\ pdStrict = [ok |-> FALSE, data |-> <<>>]
  /\ pdFetched = <<>>
  /\ pdLog = <<>>

InitRec ==
  /\ rcPc = "idle"
  /\ rcSeed = 0
  /\ rcLimit = 0
  /\ rcTopK = 0
  /\ rcPool = <<>>
  /\ rcSeen = {}
  /\ rcTried = <<>>
  /\ rcScored = <<>>
  /\ rcFiles = {}
  /\ rcWritten = {}
  /\ rcSeedOffered = FALSE
  /\ rcDupOffered = FALSE
  /\ rcMeta = "unasked"
  /\ rcOutcome = "none"
  /\ rcResult = <<>>
  /\ idGiven = [track_id |-> 0, song_name |-> FALSE, artist |-> FALSE,
                preview_url |-> FALSE, audio_path |-> FALSE]
  /\ idCalls = {}
  /\ idPool = <<>>
  /\ idTried = <<>>
  /\ idBest = [id |-> 0, similarity |-> -1]
  /\ idMax = <<>>
  /\ idConfidence = <<>>
  /\ idEnriched = <<>>
  /\ searchCache = <<>>

InitOrder ==
  /\ odPc = "none"
  /\ odFirst = <<>>
  /\ odSecond = <<>>
  /\ odTopK = 0
  /\ odListFirst = <<>>
  /\ odListSecond = <<>>
  /\ odBestFirst = [id |-> 0, similarity |-> -1]
  /\ odBestSecond = [id |-> 0, similarity |-> -1]
  /\ odIdentified = [outcome |-> "none", id |-> 0, confidence |-> <<>>]

InitIndex ==
  /\ ixRecords = [id \in 1..NumIds |-> 0]
  /\ ixFiles = {}
  /\ ixPc = [p \in 1..NumProcs |-> "idle"]
  /\ ixTrack = [p \in 1..NumProcs |-> 0]
  /\ ixStatus = [p \in 1..NumProcs |-> "none"]
  /\ vdLast = [op |-> "none", track_id |-> 0, failed |-> FALSE, raised |-> FALSE]

InitTop ==
  /\ tpPc = "idle"
  /\ tpTotal = 0
  /\ tpAll = <<>>
  /\ tpIndex = 0
  /\ tpRequests = <<>>
  /\ tpResult = <<>>

InitGenre ==
  /\ clGenreCache = (0 :> None)
  /\ gnAsked = [by \in {"service", "client"} |-> [gid \in 0..NumGenres |-> 0]]
  /\ gnLast = [by |-> "none", gid |-> 0, value |-> None]

InitAdd ==
  /\ adIds = <<>>
  /\ adPos = 0
  /\ adAdded = 0
  /\ adSkipped = 0

InitCache ==
  /\ scStore = <<>>
  /\ scFirst = <<>>
  /\ scLast = [key |-> <<>>, cached |-> FALSE, value |-> [id |-> 0, message |-> FALSE]]

Init == InitRank /\ InitSearch /\ InitRec /\ InitOrder /\ InitIndex /\ InitTop /\ InitGenre /\ InitAdd /\ InitCache

\* ------------------------------------------------------------------------
\* Ranking operations
\* ------------------------------------------------------------------------
\* TrackRanker.rank(query, tracks)
RankCall(query, tracks) ==
  /\ rkOp = "none"
  /\ rkOp' = "rank"
  /\ rkQuery' = query
  /\ rkTracks' = tracks
  /\ rkRanked' = RankTable[query, tracks]
  /\ rkOut' = rkRanked'
  /\ rkRequests' = <<>>
  /\ UNCHANGED genreCache

\* the name upstream has for a genre id
GenreName(gid) == IF gid = 1 THEN "rock" ELSE "pop"

\* a resolution that does not memoize a None
GetGenreForgetsNone(gc, gid, answer) ==
  IF gid \in DOMAIN gc THEN <<gc[gid], gc>>
  ELSE IF answer = None THEN <<None, gc>>
  ELSE <<answer, (gid :> answer) @@ gc>>

\* DeezerService.get_genre with the cache gc; answer is what the genre
\* endpoint replies when asked: a name, or None for an error payload or a
\* failed request. The result is <<value, cache after the call>>.
GetGenre(gc, gid, answer) ==
  IF gid \in DOMAIN gc THEN <<gc[gid], gc>>
  ELSE <<answer, (gid :> answer) @@ gc>>

\* the genre lookups of the ranking loop over tracks, in order
RECURSIVE ResolveGenres(_, _, _)
ResolveGenres(gc, tracks, answers) ==
  IF tracks = <<>> THEN <<<<>>, gc>>
  ELSE LET t == Head(tracks)
           g == IF t.gid # 0 THEN GetGenre(gc, t.gid, answers[t.gid]) ELSE <<None, gc>>
           rest == ResolveGenres(g[2], Tail(tracks), answers)
       IN  <<(<<g[1]>> \o rest[1]), rest[2]>>

\* the strict and the relaxed form of the q parameter
StrictQuery(query) == <<"track:">> \o query

\* what a /search request is answered with: a list, or a failure
SearchAnswers == { [ok |-> TRUE, data |-> r] : r \in Responses } \cup { [ok |-> FALSE, data |-> <<>>] }

\* what the genre endpoint replies for each genre id of the catalog
GenreAnswers == [{ c.gid : c \in Catalog } \ {0} -> {GenreName(1), None}]

\* the end of search_tracks_ranked: genre lookups, sort, trim
RankedFinish(query, limit, requests, tracks, answers) ==
  LET genres == ResolveGenres(genreCache, tracks, answers)
      ranked == RankTable[query, tracks]
  IN  /\ rkOp' = "ranked"
      /\ rkQuery' = query
      /\ rkRequests' = requests
      /\ rkTracks' = tracks
      /\ rkRanked' = ranked
      /\ rkOut' = Prefix(ranked, limit)
      /\ genreCache' = genres[2]

\* search_tracks_ranked raises
RankedRaise(query, requests) ==
  /\ rkOp' = "error"
  /\ rkQuery' = query
  /\ rkRequests' = requests
  /\ rkTracks' = <<>>
  /\ rkRanked' = <<>>
  /\ rkOut' = <<>>
  /\ UNCHANGED genreCache

\* DeezerService.search_tracks_ranked(query, limit, fallback)
SearchTracksRanked(query, limit, fallback) ==
  /\ rkOp = "none"
  /\ \E strict \in SearchAnswers :
       IF ~strict.ok
         THEN RankedRaise(query, <<StrictQuery(query)>>)
         ELSE IF strict.data = <<>> /\ fallback
           THEN \E relaxed \in SearchAnswers :
                  IF ~relaxed.ok
                    THEN RankedRaise(query, <<StrictQuery(query), query>>)
                    ELSE \E answers \in GenreAnswers :
                           RankedFinish(query, limit, <<StrictQuery(query), query>>,
                                        relaxed.data, answers)
           ELSE \E answers \in GenreAnswers :
                  RankedFinish(query, limit, <<StrictQuery(query)>>, strict.data, answers)

\* the caller has taken the result; the service and its genre cache stay
RankReturn ==
  /\ rkOp # "none"
  /\ rkOp' = "none"
  /\ rkQuery' = <<>>
  /\ rkTracks' = <<>>
  /\ rkRanked' = <<>>
  /\ rkOut' = <<>>
  /\ rkRequests' = <<>>
  /\ UNCHANGED genreCache

NextRank ==
  \/ RankReturn
  \/ \E q \in Queries, tracks \in Responses : RankCall(q, tracks)
  \/ \E q \in Queries, limit \in Limits, fallback \in BOOLEAN :
       SearchTracksRanked(q, limit, fallback)

SpecRank == Init /\ [][NextRank /\ UNCHANGED <<searchVars, recVars, orderVars, indexVars, vdLast, topVars, genreVars, addVars, cacheVars>>]_vars

\* ------------------------------------------------------------------------
\* DeezerSongSearchModel.predict
\* ------------------------------------------------------------------------
\* cache_key = (normalized_query, sanitized_limit)
CacheKey(song_name, limit) == <<Normalize(song_name), Max2(1, limit)>>

\* ResultCache.get: <<the stored tuple>>, or <<>> for None
CacheGet(store, key) == IF key \in DOMAIN store THEN <<store[key]>> ELSE <<>>

\* the hit test replaced by the truth value of the cached tuple
IsHitTruthy(cached) == cached # <<>> /\ cached[1] # <<>>

\* "if cached_tracks is not None"
IsHit(cached) == cached # <<>>

\* ResultCache.set
CacheSet(store, key, value) == (key :> value) @@ store

\* the record of a finished call
Finished(song, limit, outcome, result, calls) ==
  [key |-> CacheKey(song, limit), outcome |-> outcome, result |-> result, calls |-> calls]

\* predict(song_name, limit) up to its first client call
Predict(song, limit) ==
  /\ pdPc = "idle"
  /\ Len(pdLog) < MaxCalls
  /\ pdSong' = song
  /\ pdLimit' = limit
  /\ pdFetched' = <<>>
  /\ pdStrict' = [ok |-> FALSE, data |-> <<>>]
  /\ UNCHANGED cache
  /\ IF song = <<>> \/ Strip(song) = <<>>
       THEN /\ pdLog' = Append(pdLog, Finished(song, limit, "ValueError", <<>>, <<>>))
            /\ pdCalls' = <<>>
            /\ UNCHANGED pdPc
       ELSE LET cached_tracks == CacheGet(cache, CacheKey(song, limit))
            IN  IF IsHit(cached_tracks)
                  THEN /\ pdLog' = Append(pdLog, Finished(song, limit, "ok", cached_tracks[1], <<>>))
                       /\ pdCalls' = <<>>
                       /\ UNCHANGED pdPc
                  ELSE /\ pdPc' = "strict"
                       /\ pdCalls' = <<>>
                       /\ UNCHANGED pdLog

\* the ranked list stored and returned whole
CompleteUntrimmed(tracks, calls) ==
  LET ranked_tracks == RankTable[pdSong, tracks]
  IN  /\ pdFetched' = tracks
      /\ cache' = CacheSet(cache, CacheKey(pdSong, pdLimit), ranked_tracks)
      /\ pdLog' = Append(pdLog, Finished(pdSong, pdLimit, "ok", ranked_tracks, calls))
      /\ pdCalls' = calls
      /\ pdPc' = "idle"

\* rank, trim, store and return: the end of a predict call that fetched tracks
Complete(tracks, calls) ==
  LET sanitized_limit == Max2(1, pdLimit)
      ranked_tracks == RankTable[pdSong, tracks]
      trimmed_tracks == Prefix(ranked_tracks, sanitized_limit)
  IN  /\ pdFetched' = tracks
      /\ cache' = CacheSet(cache, CacheKey(pdSong, pdLimit), trimmed_tracks)
      /\ pdLog' = Append(pdLog, Finished(pdSong, pdLimit, "ok", trimmed_tracks, calls))
      /\ pdCalls' = calls
      /\ pdPc' = "idle"

\* the failure stored as an empty result
FailedStoresEmpty(calls) ==
  /\ pdLog' = Append(pdLog, Finished(pdSong, pdLimit, "error", <<>>, calls))
  /\ pdCalls' = calls
  /\ pdPc' = "idle"
  /\ cache' = CacheSet(cache, CacheKey(pdSong, pdLimit), <<>>)
  /\ UNCHANGED pdFetched

\* the client call raised: predict raises, nothing is stored
Failed(calls) ==
  /\ pdLog' = Append(pdLog, Finished(pdSong, pdLimit, "error", <<>>, calls))
  /\ pdCalls' = calls
  /\ pdPc' = "idle"
  /\ UNCHANGED <<cache, pdFetched>>

\* the fallback taken whatever the strict search returned
NeedsFallbackAlways(tracks) == TRUE

\* "if not tracks" after the strict search
NeedsFallback(tracks) == tracks = <<>>

\* _fetch_tracks(song_name, fetch_limit, strict=True) and what follows it
StrictSearch ==
  /\ pdPc = "strict"
  /\ UNCHANGED <<pdSong, pdLimit>>
  /\ \E answer \in SearchAnswers :
       LET calls == Append(pdCalls, TRUE)
       IN  /\ pdStrict' = answer
           /\ IF ~answer.ok
                THEN Failed(calls)
                ELSE IF NeedsFallback(answer.data)
                  THEN /\ pdPc' = "relaxed"
                       /\ pdCalls' = calls
                       /\ UNCHANGED <<cache, pdFetched, pdLog>>
                  ELSE Complete(answer.data, calls)

\* _fetch_tracks(song_name, fetch_limit, strict=False) and what follows it
RelaxedSearch ==
  /\ pdPc = "relaxed"
  /\ UNCHANGED <<pdSong, pdLimit, pdStrict>>
  /\ \E answer \in SearchAnswers :
       LET calls == Append(pdCalls, FALSE)
       IN  IF ~answer.ok THEN Failed(calls) ELSE Complete(answer.data, calls)

NextSearch ==
  \/ \E song \in Queries, limit \in Limits : Predict(song, limit)
  \/ StrictSearch
  \/ RelaxedSearch

SpecSearch == Init /\ [][NextSearch /\ UNCHANGED <<rankVars, recVars, orderVars, indexVars, vdLast, topVars, genreVars, addVars, cacheVars>>]_vars

\* ------------------------------------------------------------------------
\* StyleRecommendationService.recommend_by_track_id
\* ------------------------------------------------------------------------
TrackIds == 1..NumIds

\* a track dict of the related-track or chart endpoint: its id and whether it
\* has a preview_url
RecTracks == [id : TrackIds, preview : BOOLEAN]

\* what such an endpoint answers with
TrackLists == UNION { [1..k -> RecTracks] : k \in 0..MaxResp }

\* embedder.similarity: the dot product of two unit vectors, -1.0, 0.0 or 1.0
SimValues == {-1, 0, 1}

\* get_track_metadata (Optional[Dict]): raises, returns nothing, or a dict
\* with or without a preview_url
MetaAnswers == {"error", "missing", "preview", "nopreview"}

\* download_preview followed by embed and similarity for one audio file:
\* the download fails before or after the file is created, the embedding
\* fails, or a similarity is computed
AudioOutcomes ==
  { [kind |-> "download_failed", file |-> f, sim |-> 0] : f \in BOOLEAN }
    \cup { [kind |-> "embed_failed", file |-> TRUE, sim |-> 0] }
    \cup { [kind |-> "scored", file |-> TRUE, sim |-> v] : v \in SimValues }

QueryFile(track_id) == [kind |-> "query", id |-> track_id]

CandidateFile(candidate_id) == [kind |-> "candidate", id |-> candidate_id]

\* ids of different types never compare equal
SameIdMixedTypes(a, b) == FALSE

\* comparison of two track ids ("in seen_ids", "== exclude_id")
SameId(a, b) == a = b

\* no id is ever taken for seen
InSeenNever(id, seen) == FALSE

\* "track.get("id") in seen_ids"
InSeen(id, seen) == \E x \in seen : SameId(id, x)

\* the loop over the related tracks: <<candidates, seen_ids, returned early>>
RECURSIVE CollectRelated(_, _, _, _)
CollectRelated(related, candidates, seen, limit) ==
  IF related = <<>> THEN <<candidates, seen, FALSE>>
  ELSE LET track == Head(related)
       IN  IF InSeen(track.id, seen)
             THEN CollectRelated(Tail(related), candidates, seen, limit)
             ELSE IF Len(candidates) + 1 >= limit
               THEN <<Append(candidates, track), seen \cup {track.id}, TRUE>>
               ELSE CollectRelated(Tail(related), Append(candidates, track),
                                   seen \cup {track.id}, limit)

\* the loop over the chart tracks: <<candidates, seen_ids>>
RECURSIVE CollectCharts(_, _, _, _)
CollectCharts(charts, candidates, seen, limit) ==
  IF charts = <<>> THEN <<candidates, seen>>
  ELSE LET track == Head(charts)
       IN  IF InSeen(track.id, seen) \/ ~track.preview
             THEN CollectCharts(Tail(charts), candidates, seen, limit)
             ELSE IF Len(candidates) + 1 >= limit
               THEN <<Append(candidates, track), seen \cup {track.id}>>
               ELSE CollectCharts(Tail(charts), Append(candidates, track),
                                  seen \cup {track.id}, limit)

\* the scoring loop visits a candidate without a preview like any other
SkipsCandidateIgnoringPreview(candidate, exclude_id) == SameId(candidate.id, exclude_id)

\* "if not candidate_id or candidate_id == exclude_id or not preview_url: continue"
SkipsCandidate(candidate, exclude_id) ==
  SameId(candidate.id, exclude_id) \/ ~candidate.preview

\* a failing candidate ends the scoring loop
AfterFailureAbort(index, pool) == Len(pool) + 1

\* the index the scoring loop goes on with after a candidate failed
AfterFailure(index, pool) == index + 1

\* the smaller similarity first
SimGTAscending(a, b) == a.similarity < b.similarity

\* order of sorted(scored, key=similarity, reverse=True)
SimGT(a, b) == a.similarity > b.similarity

\* the scored candidates are returned in the order they were scored in
RankScoredUnsorted(scored) == scored

\* sorted(scored, key=lambda item: item["similarity"], reverse=True)
RankScored(scored) ==
  StableSortDesc(scored,
    [i \in 1..Len(scored) |-> [j \in 1..Len(scored) |-> SimGT(scored[i], scored[j])]])

\* TemporaryDirectory.__exit__ leaves the files in place
ExitTempDirKeep(files) == files

\* TemporaryDirectory.__exit__: the directory and all its files are removed
ExitTempDir(files) == {}

\* the seed is analysed whatever its metadata holds
SeedUsableAlways(metadata) == TRUE

\* negation of "if not metadata or not metadata.get("preview_url")"
SeedUsable(metadata) == metadata = "preview"

\* recommend_by_track_id(track_id, candidate_limit, top_k) up to the metadata
\* fetch and the preview check. top_k is drawn where it is first read, by
\* the slice of the return statement.
RecBegin(track_id, candidate_limit) ==
  /\ rcSeed' = track_id
  /\ rcLimit' = candidate_limit
  /\ rcTopK' = 0
  /\ rcPool' = <<>>
  /\ rcSeen' = {}
  /\ rcTried' = <<>>
  /\ rcScored' = <<>>
  /\ rcResult' = <<>>
  /\ rcFiles' = rcFiles
  /\ rcWritten' = {}
  /\ rcSeedOffered' = FALSE
  /\ rcDupOffered' = FALSE
  /\ \E metadata \in MetaAnswers :
       /\ rcMeta' = metadata
       /\ IF metadata = "error"
            THEN rcPc' = "done" /\ rcOutcome' = "error"
            ELSE IF SeedUsable(metadata)
              THEN rcPc' = "seed" /\ rcOutcome' = "none"
              ELSE rcPc' = "done" /\ rcOutcome' = "ValueError"

Recommend(track_id, candidate_limit) ==
  /\ rcPc = "idle"
  /\ UNCHANGED idVars
  /\ RecBegin(track_id, candidate_limit)

\* download of the seed preview into the temporary directory and its embedding
SeedAudio ==
  /\ UNCHANGED idVars
  /\ rcPc = "seed"
  /\ UNCHANGED <<rcSeed, rcSeedOffered, rcDupOffered, rcMeta, rcLimit, rcTopK, rcPool, rcSeen, rcTried, rcScored, rcResult>>
  /\ \E o \in AudioOutcomes :
       /\ o.sim = 0
       /\ rcWritten' = IF o.file THEN rcWritten \cup {QueryFile(rcSeed)} ELSE rcWritten
       /\ IF o.kind = "scored"
            THEN /\ rcFiles' = rcFiles \cup {QueryFile(rcSeed)}
                 /\ rcPc' = "related"
                 /\ UNCHANGED rcOutcome
            ELSE /\ rcFiles' = ExitTempDir(IF o.file THEN rcFiles \cup {QueryFile(rcSeed)} ELSE rcFiles)
                 /\ rcPc' = "done"
                 /\ rcOutcome' = "error"

\* _collect_candidates: the related tracks
Related ==
  /\ UNCHANGED idVars
  /\ rcPc = "related"
  /\ UNCHANGED <<rcSeed, rcMeta, rcLimit, rcTopK, rcTried, rcScored, rcResult, rcFiles, rcWritten,
                 rcOutcome>>
  /\ \E related \in TrackLists :
       LET r == CollectRelated(related, <<>>, {rcSeed}, rcLimit)
       IN  /\ rcPool' = r[1]
           /\ rcSeen' = r[2]
           /\ rcSeedOffered' = \E i \in DOMAIN related : related[i].id = rcSeed
           /\ rcDupOffered' = \E i, j \in DOMAIN related :
                                 i < j /\ related[i].id = related[j].id /\ related[i].id # rcSeed
           /\ rcPc' = IF r[3] \/ ~(Len(r[1]) < rcLimit) THEN "score" ELSE "chart"

\* _collect_candidates: the chart tracks
Charts ==
  /\ UNCHANGED idVars
  /\ rcPc = "chart"
  /\ UNCHANGED <<rcSeed, rcMeta, rcLimit, rcTopK, rcTried, rcScored, rcResult, rcFiles, rcWritten,
                 rcOutcome>>
  /\ \E charts \in TrackLists :
       LET r == CollectCharts(charts, rcPool, rcSeen, rcLimit)
       IN  /\ rcPool' = r[1]
           /\ rcSeen' = r[2]
           /\ rcSeedOffered' = (rcSeedOffered \/ \E i \in DOMAIN charts : charts[i].id = rcSeed)
           /\ rcDupOffered' = (\/ rcDupOffered
                               \/ \E i \in DOMAIN charts : charts[i].id \in rcSeen \ {rcSeed}
                               \/ \E i, j \in DOMAIN charts :
                                    i < j /\ charts[i].id = charts[j].id /\ charts[i].id # rcSeed)
           /\ rcPc' = "score"

\* one pass of the loop of _score_candidates
ScoreCandidate ==
  /\ UNCHANGED idVars
  /\ rcPc = "score"
  /\ Len(rcTried) < Len(rcPool)
  /\ UNCHANGED <<rcSeed, rcSeedOffered, rcDupOffered, rcMeta, rcLimit, rcTopK, rcPool, rcSeen, rcResult, rcOutcome, rcPc>>
  /\ LET index == Len(rcTried) + 1
         candidate == rcPool[index]
         skipTo(n, tried) == tried \o [i \in 1..(n - Len(tried) - 1) |-> "unvisited"]
     IN  IF SkipsCandidate(candidate, rcSeed)
           THEN /\ rcTried' = Append(rcTried, "skipped")
                /\ UNCHANGED <<rcScored, rcFiles, rcWritten>>
           ELSE \E o \in AudioOutcomes :
                  /\ rcFiles' = IF o.file THEN rcFiles \cup {CandidateFile(candidate.id)} ELSE rcFiles
                  /\ rcWritten' = IF o.file THEN rcWritten \cup {CandidateFile(candidate.id)}
                                  ELSE rcWritten
                  /\ IF o.kind = "scored"
                       THEN /\ rcScored' = Append(rcScored,
                                  [id |-> candidate.id, preview |-> candidate.preview,
                                   similarity |-> o.sim])
                            /\ rcTried' = Append(rcTried, "scored")
                       ELSE /\ o.sim = 0
                            /\ UNCHANGED rcScored
                            /\ rcTried' = skipTo(AfterFailure(index, rcPool),
                                                 Append(rcTried, o.kind))

\* the end of recommend_by_track_id: the temporary directory is left, the
\* scored candidates are sorted and cut to top_k
RecReturn ==
  /\ UNCHANGED idVars
  /\ rcPc = "score"
  /\ Len(rcTried) >= Len(rcPool)
  /\ UNCHANGED <<rcSeed, rcSeedOffered, rcDupOffered, rcMeta, rcLimit, rcPool, rcSeen, rcTried, rcScored, rcWritten>>
  /\ rcFiles' = ExitTempDir(rcFiles)
  /\ \E top_k \in 0..MaxCandLimit :
       /\ rcTopK' = top_k
       /\ rcResult' = Prefix(RankScored(rcScored), top_k)
  /\ rcOutcome' = "ok"
  /\ rcPc' = "done"

\* the caller has taken the result or the exception
RecDone ==
  /\ rcPc = "done"
  /\ rcPc' = "idle"
  /\ rcSeed' = 0
  /\ rcLimit' = 0
  /\ rcTopK' = 0
  /\ rcPool' = <<>>
  /\ rcSeen' = {}
  /\ rcTried' = <<>>
  /\ rcScored' = <<>>
  /\ rcFiles' = rcFiles
  /\ rcWritten' = {}
  /\ rcSeedOffered' = FALSE
  /\ rcDupOffered' = FALSE
  /\ rcMeta' = "unasked"
  /\ rcOutcome' = "none"
  /\ rcResult' = <<>>
  /\ idGiven' = [track_id |-> 0, song_name |-> FALSE, artist |-> FALSE,
                 preview_url |-> FALSE, audio_path |-> FALSE]
  /\ idCalls' = {}
  /\ idPool' = <<>>
  /\ idTried' = <<>>
  /\ idBest' = [id |-> 0, similarity |-> -1]
  /\ idMax' = <<>>
  /\ idConfidence' = <<>>
  /\ idEnriched' = <<>>
  /\ UNCHANGED searchCache

\* ------------------------------------------------------------------------
\* SongRecognitionService.identify_and_recommend
\* ------------------------------------------------------------------------
NoInputs == [track_id |-> 0, song_name |-> FALSE, artist |-> FALSE,
             preview_url |-> FALSE, audio_path |-> FALSE]

\* the inputs of a request: track_id 0 and FALSE stand for None
IdInputs == [track_id : {0} \cup TrackIds, song_name : BOOLEAN, artist : BOOLEAN,
             preview_url : BOOLEAN, audio_path : BOOLEAN]

\* query of the text search: song_name, or "<song_name> <artist>"
SearchQuery(given) == IF given.artist THEN <<"song", "artist">> ELSE <<"song">>

\* what the /search request of search_tracks(query, limit=1) is answered
\* with: a failure, no track (0), or the track 1
TextSearchAnswers == [ok : {TRUE}, id : {0, 1}] \cup {[ok |-> FALSE, id |-> 0]}

\* a track of the text search is passed over
TextSearchFoundNever(metadata_id) == FALSE

\* "if metadata:" after search_tracks(query, limit=1); 0 stands for None
TextSearchFound(metadata_id) == metadata_id # 0

\* the name search preferred to a supplied track_id
UsesTrackIdUnlessNamed(given) == given.track_id # 0 /\ ~given.song_name

\* "if track_id:" of _identify_track
UsesTrackId(given) == given.track_id # 0

\* the request raises during the identification
IdRaise(kind) ==
  /\ rcPc' = "done"
  /\ rcOutcome' = kind
  /\ UNCHANGED <<rcSeed, idConfidence>>

\* the identification yielded a track
IdFound(track_id, confidence) ==
  /\ rcPc' = "enrich"
  /\ rcSeed' = track_id
  /\ idConfidence' = confidence
  /\ UNCHANGED rcOutcome

\* "return None, None" is taken for a recognized track
IdAudioOrNothingUnchecked(given) ==
  IF given.preview_url \/ given.audio_path
    THEN /\ rcPc' = "id_query"
         /\ UNCHANGED <<rcSeed, idConfidence, rcOutcome>>
    ELSE IdFound(0, <<>>)

\* after the id and name strategies: "if preview_url or audio_path"
IdAudioOrNothing(given) ==
  IF given.preview_url \/ given.audio_path
    THEN /\ rcPc' = "id_query"
         /\ UNCHANGED <<rcSeed, idConfidence, rcOutcome>>
    ELSE IdRaise("ValueError")

\* a track_id without metadata falls through to the audio strategy
AfterMetadataMissFallsBack(given) == IdAudioOrNothing(given)

\* "return metadata, None" with no metadata, then "if not recognized: raise"
AfterMetadataMiss(given) == IdRaise("ValueError")

\* identify_and_recommend up to the first request of _identify_track.
\* candidate_limit and similar_count are drawn where they are first read, in
\* the delegated recommend_by_track_id.
Identify(given) ==
  /\ rcPc = "idle"
  /\ idGiven' = given
  /\ UNCHANGED <<rcSeedOffered, rcDupOffered, rcMeta, rcLimit, rcTopK, rcPool, rcSeen, rcTried,
                 rcScored, rcFiles, rcWritten, rcResult, idBest, idMax, idEnriched,
                 idPool, idTried>>
  /\ IF UsesTrackId(given)
       THEN /\ idCalls' = {"metadata"}
            /\ UNCHANGED searchCache
            /\ \E metadata \in MetaAnswers :
                 IF metadata = "error" THEN IdRaise("error")
                 ELSE IF metadata = "missing" THEN AfterMetadataMiss(given)
                 ELSE IdFound(given.track_id, <<>>)
       ELSE IF given.song_name
         THEN /\ idCalls' = {"search"}
              /\ LET query == SearchQuery(given)
                 IN  IF query \in DOMAIN searchCache
                       THEN /\ UNCHANGED searchCache
                            /\ IF TextSearchFound(searchCache[query])
                                 THEN IdFound(searchCache[query], <<>>)
                                 ELSE IdAudioOrNothing(given)
                       ELSE \E answer \in TextSearchAnswers :
                              IF ~answer.ok
                                THEN IdRaise("error") /\ UNCHANGED searchCache
                                ELSE /\ searchCache' = (query :> answer.id) @@ searchCache
                                     /\ IF TextSearchFound(answer.id)
                                          THEN IdFound(answer.id, <<>>)
                                          ELSE IdAudioOrNothing(given)
         ELSE /\ idCalls' = {}
              /\ UNCHANGED searchCache
              /\ IdAudioOrNothing(given)

\* _identify_from_audio: the query audio is downloaded unless a local path
\* was given, embedded, and the downloaded file is unlinked
IdQuery ==
  /\ rcPc = "id_query"
  /\ UNCHANGED <<rcSeed, rcSeedOffered, rcDupOffered, rcMeta, rcLimit, rcTopK, rcPool, rcSeen, rcTried, rcScored, rcResult,
                 idGiven, idBest, idMax, idConfidence, idEnriched, searchCache,
                 idPool, idTried>>
  /\ \E o \in AudioOutcomes :
       /\ o.sim = 0
       /\ idGiven.audio_path => o.kind # "download_failed"
       /\ idCalls' = idCalls \cup
            (IF idGiven.audio_path THEN {} ELSE {"download"}) \cup
            (IF o.kind = "download_failed" THEN {} ELSE {"embed"})
       /\ rcWritten' = IF o.file /\ ~idGiven.audio_path
                         THEN rcWritten \cup {QueryFile(0)} ELSE rcWritten
       /\ IF o.kind = "scored"
            THEN /\ rcFiles' = rcFiles \ {QueryFile(0)}
                 /\ rcPc' = "id_chart"
                 /\ UNCHANGED rcOutcome
            ELSE /\ rcFiles' = ExitTempDir(IF o.kind = "download_failed" /\ o.file
                                             THEN rcFiles \cup {QueryFile(0)}
                                             ELSE rcFiles \ {QueryFile(0)})
                 /\ rcPc' = "done"
                 /\ rcOutcome' = "error"

\* _identify_from_audio: the candidate pool is the chart
IdChart ==
  /\ rcPc = "id_chart"
  /\ UNCHANGED <<rcSeed, rcSeedOffered, rcDupOffered, rcMeta, rcLimit, rcTopK, rcSeen, rcScored, rcResult,
                 rcWritten,
                 idGiven, idMax, idConfidence, idEnriched, searchCache,
                 rcPool, rcTried>>
  /\ idCalls' = idCalls \cup {"chart"}
  /\ idTried' = <<>>
  /\ idBest' = [id |-> 0, similarity |-> -1]
  /\ \/ /\ rcPc' = "done"
        /\ rcOutcome' = "error"
        /\ rcFiles' = ExitTempDir(rcFiles)
        /\ UNCHANGED idPool
     \/ \E charts \in TrackLists :
          /\ idPool' = charts
          /\ rcPc' = "id_score"
          /\ UNCHANGED <<rcOutcome, rcFiles>>

\* every scored candidate replaces best
UpdateBestLatest(best, candidate_id, similarity) ==
  [id |-> candidate_id, similarity |-> similarity]

\* "if similarity > best[1]: best = (candidate, similarity)"
UpdateBest(best, candidate_id, similarity) ==
  IF similarity > best.similarity
    THEN [id |-> candidate_id, similarity |-> similarity]
    ELSE best

\* one pass of the candidate loop of _identify_from_audio
IdScore ==
  /\ rcPc = "id_score"
  /\ Len(idTried) < Len(idPool)
  /\ UNCHANGED <<rcSeed, rcSeedOffered, rcDupOffered, rcMeta, rcLimit, rcTopK, rcPool, rcSeen, rcScored, rcResult,
                 rcOutcome, rcPc,
                 idGiven, idConfidence, idEnriched, searchCache,
                 rcTried, idPool>>
  /\ LET candidate == idPool[Len(idTried) + 1]
     IN  IF ~candidate.preview
           THEN /\ idTried' = Append(idTried, "skipped")
                /\ UNCHANGED <<rcFiles, rcWritten, idBest, idMax, idCalls>>
           ELSE \E o \in AudioOutcomes :
                  /\ idTried' = Append(idTried, o.kind)
                  /\ idCalls' = idCalls \cup {"download"} \cup
                       (IF o.kind = "download_failed" THEN {} ELSE {"embed"})
                  /\ rcFiles' = IF o.file THEN rcFiles \cup {CandidateFile(candidate.id)} ELSE rcFiles
                  /\ rcWritten' = IF o.file THEN rcWritten \cup {CandidateFile(candidate.id)}
                                  ELSE rcWritten
                  /\ IF o.kind = "scored"
                       THEN /\ idBest' = UpdateBest(idBest, candidate.id, o.sim)
                            /\ idMax' = IF idMax = <<>> THEN <<o.sim>>
                                        ELSE <<Max2(idMax[1], o.sim)>>
                       ELSE /\ o.sim = 0
                            /\ UNCHANGED <<idBest, idMax>>

\* the end of _identify_from_audio: nothing matched, or the metadata of the
\* best candidate is fetched; the temporary directory is left
IdBest ==
  /\ rcPc = "id_score"
  /\ Len(idTried) >= Len(idPool)
  /\ UNCHANGED <<rcSeedOffered, rcDupOffered, rcMeta, rcLimit, rcTopK, rcPool, rcSeen, rcTried, rcScored, rcResult,
                 rcWritten,
                 idGiven, idBest, idMax, idEnriched, searchCache,
                 idPool, idTried>>
  /\ rcFiles' = ExitTempDir(rcFiles)
  /\ IF idBest.id = 0
       THEN IdRaise("ValueError") /\ UNCHANGED idCalls
       ELSE /\ idCalls' = idCalls \cup {"metadata"}
            /\ \E metadata \in MetaAnswers :
                 IF metadata = "error" THEN IdRaise("error")
                 ELSE IdFound(idBest.id, <<idBest.similarity>>)

\* identify_and_recommend after the identification: the metadata of the
\* recognized track is fetched again and the confidence attached
Enrich ==
  /\ rcPc = "enrich"
  /\ UNCHANGED <<rcSeed, rcSeedOffered, rcDupOffered, rcMeta, rcLimit, rcTopK, rcPool, rcSeen, rcTried, rcScored, rcResult,
                 rcFiles, rcWritten, idGiven, idCalls, idBest, idMax, idConfidence, searchCache,
                 idPool, idTried>>
  /\ \E metadata \in MetaAnswers :
       IF metadata = "error"
         THEN /\ rcPc' = "done"
              /\ rcOutcome' = "error"
              /\ UNCHANGED idEnriched
         ELSE /\ rcPc' = "rec_start"
              /\ idEnriched' = idConfidence
              /\ UNCHANGED rcOutcome

\* the delegated self.style_service.recommend_by_track_id(enriched["id"], ...)
RecDelegated ==
  /\ rcPc = "rec_start"
  /\ idGiven' = NoInputs
  /\ idCalls' = {}
  /\ idPool' = <<>>
  /\ idTried' = <<>>
  /\ idBest' = [id |-> 0, similarity |-> -1]
  /\ idMax' = <<>>
  /\ idConfidence' = <<>>
  /\ idEnriched' = <<>>
  /\ UNCHANGED searchCache
  /\ \E limit \in 0..MaxCandLimit : RecBegin(rcSeed, limit)

NextRec ==
  \/ \E id \in TrackIds, limit \in 0..MaxCandLimit : Recommend(id, limit)
  \/ SeedAudio
  \/ Related
  \/ Charts
  \/ ScoreCandidate
  \/ RecReturn
  \/ RecDone
  \/ \E given \in IdInputs : Identify(given)
  \/ IdQuery
  \/ IdChart
  \/ IdScore
  \/ IdBest
  \/ Enrich
  \/ RecDelegated

SpecRec == Init /\ [][NextRec /\ UNCHANGED <<rankVars, searchVars, orderVars, indexVars, vdLast, topVars, genreVars, addVars, cacheVars>>]_vars

\* ------------------------------------------------------------------------
\* One candidate pool scored in two different orders
\* ------------------------------------------------------------------------
\* the candidates a scoring loop has scored, each with its similarity
ScoredPools ==
  UNION { { [i \in 1..k |-> [id |-> ids[i], preview |-> TRUE, similarity |-> sims[i]]] :
              ids \in { d \in DistinctSeqs(TrackIds, k) : Len(d) = k },
              sims \in [1..k -> SimValues] } :
          k \in 1..MaxPool }

\* the orders a pool of n candidates can be scored in
Orderings(n) == { f \in [1..n -> 1..n] : \A i, j \in 1..n : i # j => f[i] # f[j] }

\* the candidate loop of _identify_from_audio over scored candidates
RECURSIVE BestOver(_, _)
BestOver(scored, best) ==
  IF scored = <<>> THEN best
  ELSE BestOver(Tail(scored), UpdateBest(best, Head(scored).id, Head(scored).similarity))

\* the end of _identify_from_audio and the test of identify_and_recommend:
\* no best candidate is (None, None) and "if not recognized: raise ValueError";
\* otherwise the metadata of the best candidate is fetched, the candidate
\* itself standing in when there is none, and returned with best[1]
AudioResult(best, metadata) ==
  IF best.id = 0 THEN [outcome |-> "ValueError", id |-> 0, confidence |-> <<>>]
  ELSE IF metadata = "error" THEN [outcome |-> "error", id |-> 0, confidence |-> <<>>]
  ELSE [outcome |-> "ok", id |-> best.id, confidence |-> <<best.similarity>>]

\* recommend_by_track_id and _identify_from_audio for one pool in two orders
OrderCall(scored, order, top_k) ==
  /\ odPc = "none"
  /\ odPc' = "done"
  /\ odFirst' = scored
  /\ odSecond' = [i \in 1..Len(scored) |-> scored[order[i]]]
  /\ odTopK' = top_k
  /\ odListFirst' = Prefix(RankScored(odFirst'), top_k)
  /\ odListSecond' = Prefix(RankScored(odSecond'), top_k)
  /\ odBestFirst' = BestOver(odFirst', [id |-> 0, similarity |-> -1])
  /\ odBestSecond' = BestOver(odSecond', [id |-> 0, similarity |-> -1])
  /\ \E metadata \in MetaAnswers : odIdentified' = AudioResult(odBestFirst', metadata)

\* both results have been taken
OrderReturn ==
  /\ odPc = "done"
  /\ odPc' = "none"
  /\ odFirst' = <<>>
  /\ odSecond' = <<>>
  /\ odTopK' = 0
  /\ odListFirst' = <<>>
  /\ odListSecond' = <<>>
  /\ odBestFirst' = [id |-> 0, similarity |-> -1]
  /\ odBestSecond' = [id |-> 0, similarity |-> -1]
  /\ odIdentified' = [outcome |-> "none", id |-> 0, confidence |-> <<>>]

NextOrder ==
  \/ /\ odPc = "none"
     /\ \E scored \in ScoredPools :
          \E order \in Orderings(Len(scored)), top_k \in 0..MaxCandLimit :
            OrderCall(scored, order, top_k)
  \/ OrderReturn

SpecOrder == Init /\ [][NextOrder /\ UNCHANGED <<rankVars, searchVars, recVars, indexVars, vdLast, topVars, genreVars, addVars, cacheVars>>]_vars

\* ------------------------------------------------------------------------
\* The vector index (VectorDBService) and the handlers that use it
\* ------------------------------------------------------------------------
IndexIds == 1..NumIndexIds

Procs == 1..NumProcs

\* the backend (the collection or its client) answers a call or fails
BackendAnswers == {"ok", "fail"}

\* what collection.add does with an id the collection already holds: it
\* rejects the call or leaves the stored record as it is
DuplicateAnswers == {"raise", "ignore"}

RECURSIVE SumRecords(_, _)
SumRecords(records, ids) ==
  IF ids = {} THEN 0
  ELSE LET id == CHOOSE i \in ids : TRUE
       IN records[id] + SumRecords(records, ids \ {id})

CollectionAddTwice(records, track_ids, duplicate) ==
  [raised |-> FALSE,
   records |-> [id \in DOMAIN records |->
                  IF id \in track_ids THEN records[id] + 1 ELSE records[id]]]

\* collection.add(ids=...)
CollectionAdd(records, track_ids, duplicate) ==
  IF (\E id \in track_ids : records[id] > 0) /\ duplicate = "raise"
    THEN [raised |-> TRUE, records |-> records]
    ELSE [raised |-> FALSE,
          records |-> [id \in DOMAIN records |->
                         IF id \in track_ids /\ records[id] = 0
                           THEN records[id] + 1 ELSE records[id]]]

add_track(records, track_id, backend, duplicate) ==
  IF backend = "fail" THEN [raised |-> TRUE, records |-> records]
  ELSE CollectionAdd(records, {track_id}, duplicate)

bulk_add_tracks(records, track_ids, backend, duplicate) ==
  IF backend = "fail" THEN [raised |-> TRUE, records |-> records]
  ELSE CollectionAdd(records, track_ids, duplicate)

\* the ids of the result; the distances and metadatas are not modelled
query_similar(records, backend) ==
  IF backend = "fail" THEN [raised |-> TRUE, ids |-> {}]
  ELSE [raised |-> FALSE, ids |-> { id \in DOMAIN records : records[id] > 0 }]

get_track(records, track_id, backend) ==
  IF backend = "fail" THEN [raised |-> TRUE, found |-> FALSE]
  ELSE [raised |-> FALSE, found |-> records[track_id] > 0]

track_exists(records, track_id, backend) ==
  IF backend = "fail" THEN [raised |-> FALSE, found |-> FALSE]
  ELSE [raised |-> FALSE, found |-> records[track_id] > 0]

delete_track(records, track_id, backend) ==
  IF backend = "fail" THEN [raised |-> TRUE, records |-> records]
  ELSE [raised |-> FALSE, records |-> [records EXCEPT ![track_id] = 0]]

count_tracks(records, backend) ==
  IF backend = "fail" THEN [raised |-> FALSE, count |-> 0]
  ELSE [raised |-> FALSE, count |-> SumRecords(records, DOMAIN records)]

reset_database(records, backend) ==
  IF backend = "fail" THEN [raised |-> TRUE, records |-> records]
  ELSE [raised |-> FALSE, records |-> [id \in DOMAIN records |-> 0]]

Called(op, track_id, backend, result) ==
  vdLast' = [op |-> op, track_id |-> track_id,
             failed |-> backend = "fail", raised |-> result.raised]

VdbAddTrack ==
  \E track_id \in TrackIds, backend \in BackendAnswers, duplicate \in DuplicateAnswers :
    LET result == add_track(ixRecords, track_id, backend, duplicate)
    IN /\ ixRecords' = result.records
       /\ Called("add_track", track_id, backend, result)

VdbBulkAddTracks ==
  \E track_ids \in SUBSET TrackIds, backend \in BackendAnswers,
     duplicate \in DuplicateAnswers :
    LET result == bulk_add_tracks(ixRecords, track_ids, backend, duplicate)
    IN /\ ixRecords' = result.records
       /\ Called("bulk_add_tracks", 0, backend, result)

VdbQuerySimilar ==
  \E backend \in BackendAnswers :
    /\ Called("query_similar", 0, backend, query_similar(ixRecords, backend))
    /\ UNCHANGED ixRecords

VdbGetTrack ==
  \E track_id \in TrackIds, backend \in BackendAnswers :
    /\ Called("get_track", track_id, backend, get_track(ixRecords, track_id, backend))
    /\ UNCHANGED ixRecords

VdbTrackExists ==
  \E track_id \in TrackIds, backend \in BackendAnswers :
    /\ Called("track_exists", track_id, backend,
              track_exists(ixRecords, track_id, backend))
    /\ UNCHANGED ixRecords

VdbDeleteTrack ==
  \E track_id \in TrackIds, backend \in BackendAnswers :
    LET result == delete_track(ixRecords, track_id, backend)
    IN /\ ixRecords' = result.records
       /\ Called("delete_track", track_id, backend, result)

VdbCountTracks ==
  \E backend \in BackendAnswers :
    /\ Called("count_tracks", 0, backend, count_tracks(ixRecords, backend))
    /\ UNCHANGED ixRecords

VdbResetDatabase ==
  \E backend \in BackendAnswers :
    LET result == reset_database(ixRecords, backend)
    IN /\ ixRecords' = result.records
       /\ Called("reset_database", 0, backend, result)

NextVdb ==
  \/ VdbAddTrack
  \/ VdbBulkAddTracks
  \/ VdbQuerySimilar
  \/ VdbGetTrack
  \/ VdbTrackExists
  \/ VdbDeleteTrack
  \/ VdbCountTracks
  \/ VdbResetDatabase

SpecVdb ==
  Init /\ [][NextVdb /\ UNCHANGED <<rankVars, searchVars, recVars, orderVars,
                                    ixFiles, ixPc, ixTrack, ixStatus, topVars, genreVars, addVars, cacheVars>>]_vars

\* download_preview(preview_url) without an output path: the temporary file
\* is created first and the download follows, so a failure leaves no file
\* ("no_file": the creation failed) or a file whose path the caller never
\* receives ("failed")
DownloadAnswers == {"no_file", "failed", "ok"}

download_preview(files, p, answer) ==
  [raised |-> answer # "ok",
   files |-> IF answer = "no_file" THEN files
             ELSE files \cup {[owner |-> p, returned |-> answer = "ok"]}]

\* os.remove(audio_file) of the finally blocks
RemoveAudioFile(files, p) == files \ {[owner |-> p, returned |-> TRUE]}

\* the end of one turn of the loop over the track ids
Turn(p, status) ==
  /\ ixPc' = [ixPc EXCEPT ![p] = "loop"]
  /\ ixStatus' = [ixStatus EXCEPT ![p] = status]

\* the end of a get_recommendations request
Respond(p, status) ==
  /\ ixPc' = [ixPc EXCEPT ![p] = "done"]
  /\ ixStatus' = [ixStatus EXCEPT ![p] = status]

\* add_tracks_to_database, init_database and add_songs_by_query begin
AddTracksBegin(p) ==
  /\ ixPc[p] = "idle"
  /\ ixPc' = [ixPc EXCEPT ![p] = "loop"]
  /\ UNCHANGED <<ixRecords, ixFiles, ixTrack, ixStatus>>

\* the loop takes the next track id
NextTrack(p, track_id) ==
  /\ ixPc[p] = "loop"
  /\ ixPc' = [ixPc EXCEPT ![p] = "check"]
  /\ ixTrack' = [ixTrack EXCEPT ![p] = track_id]
  /\ ixStatus' = [ixStatus EXCEPT ![p] = "none"]
  /\ UNCHANGED <<ixRecords, ixFiles>>

\* the loop is over and the response or the summary is built
AddTracksEnd(p) ==
  /\ ixPc[p] = "loop"
  /\ ixPc' = [ixPc EXCEPT ![p] = "done"]
  /\ UNCHANGED <<ixRecords, ixFiles, ixTrack, ixStatus>>

\* if vector_db.track_exists(track_id): skipped
CheckExists(p) ==
  /\ ixPc[p] = "check"
  /\ \E backend \in BackendAnswers :
       IF track_exists(ixRecords, ixTrack[p], backend).found
         THEN Turn(p, "skipped")
         ELSE /\ ixPc' = [ixPc EXCEPT ![p] = "meta"]
              /\ UNCHANGED ixStatus
  /\ UNCHANGED <<ixRecords, ixFiles, ixTrack>>

\* the metadata of the track and its preview: the request fetches the
\* metadata, the scripts read the preview of the track they were given
TrackMetadata(p) ==
  /\ ixPc[p] = "meta"
  /\ \E metadata \in MetaAnswers :
       IF metadata = "preview"
         THEN /\ ixPc' = [ixPc EXCEPT ![p] = "download"]
              /\ UNCHANGED ixStatus
         ELSE Turn(p, "skipped")
  /\ UNCHANGED <<ixRecords, ixFiles, ixTrack>>

\* audio_file = deezer_service.download_preview(...), before the inner try
DownloadForAdd(p) ==
  /\ ixPc[p] = "download"
  /\ \E answer \in DownloadAnswers :
       LET result == download_preview(ixFiles, p, answer)
       IN /\ ixFiles' = result.files
          /\ IF result.raised
               THEN Turn(p, "skipped")
               ELSE /\ ixPc' = [ixPc EXCEPT ![p] = "embed"]
                    /\ UNCHANGED ixStatus
  /\ UNCHANGED <<ixRecords, ixTrack>>

\* embedding = embedding_service.generate_embedding(audio_file)
EmbedForAdd(p) ==
  /\ ixPc[p] = "embed"
  /\ \E ok \in BOOLEAN :
       IF ok
         THEN /\ ixPc' = [ixPc EXCEPT ![p] = "add"]
              /\ UNCHANGED <<ixFiles, ixStatus>>
         ELSE /\ ixFiles' = RemoveAudioFile(ixFiles, p)
              /\ Turn(p, "skipped")
  /\ UNCHANGED <<ixRecords, ixTrack>>

\* vector_db.add_track(...), then the finally block
AddTrack(p) ==
  /\ ixPc[p] = "add"
  /\ \E backend \in BackendAnswers, duplicate \in DuplicateAnswers :
       LET result == add_track(ixRecords, ixTrack[p], backend, duplicate)
       IN /\ ixRecords' = result.records
          /\ Turn(p, IF result.raised THEN "skipped" ELSE "added")
  /\ ixFiles' = RemoveAudioFile(ixFiles, p)
  /\ UNCHANGED ixTrack

\* get_recommendations(track_id): the metadata of the seed
GetRecommendations(p, track_id) ==
  /\ ixPc[p] = "idle"
  /\ ixTrack' = [ixTrack EXCEPT ![p] = track_id]
  /\ \E metadata \in MetaAnswers :
       CASE metadata = "error" -> Respond(p, "500")
         [] metadata = "missing" -> Respond(p, "404")
         [] metadata = "nopreview" -> Respond(p, "400")
         [] OTHER -> /\ ixPc' = [ixPc EXCEPT ![p] = "r_download"]
                     /\ UNCHANGED ixStatus
  /\ UNCHANGED <<ixRecords, ixFiles>>

\* audio_file = deezer_service.download_preview(preview_url): when it raises
\* audio_file is still None in the finally block
DownloadForQuery(p) ==
  /\ ixPc[p] = "r_download"
  /\ \E answer \in DownloadAnswers :
       LET result == download_preview(ixFiles, p, answer)
       IN /\ ixFiles' = result.files
          /\ IF result.raised
               THEN Respond(p, "500")
               ELSE /\ ixPc' = [ixPc EXCEPT ![p] = "r_embed"]
                    /\ UNCHANGED ixStatus
  /\ UNCHANGED <<ixRecords, ixTrack>>

EmbedForQuery(p) ==
  /\ ixPc[p] = "r_embed"
  /\ \E ok \in BOOLEAN :
       IF ok
         THEN /\ ixPc' = [ixPc EXCEPT ![p] = "r_query"]
              /\ UNCHANGED <<ixFiles, ixStatus>>
         ELSE /\ ixFiles' = RemoveAudioFile(ixFiles, p)
              /\ Respond(p, "500")
  /\ UNCHANGED <<ixRecords, ixTrack>>

\* vector_db.query_similar(embedding, n_results=10), the response and the
\* finally block
QuerySimilar(p) ==
  /\ ixPc[p] = "r_query"
  /\ \E backend \in BackendAnswers :
       Respond(p, IF query_similar(ixRecords, backend).raised THEN "500" ELSE "200")
  /\ ixFiles' = RemoveAudioFile(ixFiles, p)
  /\ UNCHANGED <<ixRecords, ixTrack>>

NextIndex ==
  \/ \E p \in Procs : AddTracksBegin(p)
  \/ \E p \in Procs : \E track_id \in IndexIds : NextTrack(p, track_id)
  \/ \E p \in Procs : AddTracksEnd(p)
  \/ \E p \in Procs : CheckExists(p)
  \/ \E p \in Procs : TrackMetadata(p)
  \/ \E p \in Procs : DownloadForAdd(p)
  \/ \E p \in Procs : EmbedForAdd(p)
  \/ \E p \in Procs : AddTrack(p)
  \/ \E p \in Procs : \E track_id \in IndexIds : GetRecommendations(p, track_id)
  \/ \E p \in Procs : DownloadForQuery(p)
  \/ \E p \in Procs : EmbedForQuery(p)
  \/ \E p \in Procs : QuerySimilar(p)

SpecIndex ==
  Init /\ [][NextIndex /\ UNCHANGED <<rankVars, searchVars, recVars, orderVars,
                                      vdLast, topVars, genreVars, addVars, cacheVars>>]_vars

\* ------------------------------------------------------------------------
\* DeezerService.get_top_tracks and get_chart_tracks
\* ------------------------------------------------------------------------
\* what the chart endpoint answers a request with: some number of tracks,
\* whatever limit was asked for, or a failure
ChartAnswers == [ok : {TRUE}, n : 0..MaxBatch] \cup {[ok |-> FALSE, n |-> 0]}

\* the params of the request of get_chart_tracks(limit, index)
ChartParams(limit, index) == [limit |-> Min2(limit, BatchSize), index |-> index]

\* the tracks of an answer of n tracks to a request at index: chart positions
ChartTracks(index, n) == [i \in 1..n |-> index + i]

\* the whole list returned
TopResultUntrimmed(all_tracks, total_count) == all_tracks

\* return all_tracks[:total_count]
TopResult(all_tracks, total_count) == Prefix(all_tracks, total_count)

\* get_top_tracks(total_count) up to its loop
GetTopTracks(total_count) ==
  /\ tpPc = "idle"
  /\ tpPc' = "loop"
  /\ tpTotal' = total_count
  /\ tpAll' = <<>>
  /\ tpIndex' = 0
  /\ tpRequests' = <<>>
  /\ tpResult' = <<>>

\* one test of the while condition and, if it holds, one turn of the loop
ChartBatch ==
  /\ tpPc = "loop"
  /\ UNCHANGED tpTotal
  /\ IF Len(tpAll) < tpTotal
       THEN LET remaining == tpTotal - Len(tpAll)
                limit == Min2(BatchSize, remaining)
                params == ChartParams(limit, tpIndex)
            IN  \E answer \in ChartAnswers :
                  /\ tpRequests' = Append(tpRequests,
                       [limit |-> params.limit, index |-> params.index,
                        got |-> IF answer.ok THEN answer.n ELSE -1])
                  /\ IF ~answer.ok
                       THEN /\ tpPc' = "error"
                            /\ UNCHANGED <<tpAll, tpIndex, tpResult>>
                       ELSE IF answer.n = 0
                         THEN /\ tpPc' = "done"
                              /\ tpResult' = TopResult(tpAll, tpTotal)
                              /\ UNCHANGED <<tpAll, tpIndex>>
                         ELSE /\ tpAll' = tpAll \o ChartTracks(tpIndex, answer.n)
                              /\ tpIndex' = tpIndex + answer.n
                              /\ UNCHANGED <<tpPc, tpResult>>
       ELSE /\ tpPc' = "done"
            /\ tpResult' = TopResult(tpAll, tpTotal)
            /\ UNCHANGED <<tpAll, tpIndex, tpRequests>>

\* the caller has taken the result or the error
TopReturn ==
  /\ tpPc \in {"done", "error"}
  /\ tpPc' = "idle"
  /\ tpTotal' = 0
  /\ tpAll' = <<>>
  /\ tpIndex' = 0
  /\ tpRequests' = <<>>
  /\ tpResult' = <<>>

NextTop ==
  \/ \E total_count \in 0..MaxTotal : GetTopTracks(total_count)
  \/ ChartBatch
  \/ TopReturn

SpecTop == Init /\ [][NextTop /\ UNCHANGED <<rankVars, searchVars, recVars, orderVars, indexVars, vdLast, genreVars, addVars, cacheVars>>]_vars

\* every chart request is answered or fails: the loop takes its next turn
SpecTopFair == SpecTop /\ WF_topVars(ChartBatch)

\* ------------------------------------------------------------------------
\* Genre resolution: DeezerService.get_genre and DeezerClient._extract_genre
\* ------------------------------------------------------------------------
GenreIds == 0..NumGenres

\* an item of a search payload without a genre_id
NoGenreId == -1

\* what the genre endpoint replies: the genre, an error payload, or nothing
\* (the request fails)
GenreReplies == {"name", "error", "failed"}

\* name = None if data.get('error') else data.get('name'); None in the
\* except branch
GenreValue(gid, reply) == IF reply = "name" THEN GenreName(gid) ELSE None

\* the number of upstream requests of a resolution of gid with the cache gc
GenreRequests(gc, gid) == IF gid \in DOMAIN gc THEN 0 ELSE 1

\* DeezerClient._extract_genre(item) for an item with the genre id genre_id
ExtractGenre(gc, genre_id, answer) ==
  IF genre_id = NoGenreId THEN <<None, gc>>
  ELSE GetGenre(gc, genre_id, answer)

\* DeezerService.get_genre(genre_id)
ServiceGetGenre(genre_id) ==
  \E reply \in GenreReplies :
    LET result == GetGenre(genreCache, genre_id, GenreValue(genre_id, reply))
    IN  /\ genreCache' = result[2]
        /\ gnAsked' = [gnAsked EXCEPT !["service"][genre_id] =
                         @ + GenreRequests(genreCache, genre_id)]
        /\ gnLast' = [by |-> "service", gid |-> genre_id, value |-> result[1]]
        /\ UNCHANGED clGenreCache

\* DeezerClient._extract_genre(item)
ClientExtractGenre(genre_id) ==
  \E reply \in GenreReplies :
    LET result == ExtractGenre(clGenreCache, genre_id, GenreValue(genre_id, reply))
    IN  /\ clGenreCache' = result[2]
        /\ gnAsked' = IF genre_id = NoGenreId THEN gnAsked
                      ELSE [gnAsked EXCEPT !["client"][genre_id] =
                              @ + GenreRequests(clGenreCache, genre_id)]
        /\ gnLast' = [by |-> "client", gid |-> genre_id, value |-> result[1]]
        /\ UNCHANGED genreCache

NextGenre ==
  \/ \E genre_id \in GenreIds : ServiceGetGenre(genre_id)
  \/ \E genre_id \in GenreIds \cup {NoGenreId} : ClientExtractGenre(genre_id)

SpecGenre ==
  Init /\ [][NextGenre /\ UNCHANGED <<rkOp, rkQuery, rkTracks, rkRanked, rkOut, rkRequests,
                                      searchVars, recVars, orderVars, indexVars, vdLast,
                                      topVars, addVars, cacheVars>>]_vars

\* ------------------------------------------------------------------------
\* One add_tracks_to_database request with its counters
\* ------------------------------------------------------------------------
\* the track_ids of a request; an id can occur twice
RequestLists == UNION { [1..k -> TrackIds] : k \in 0..MaxRequest }

\* the request is handled by the first process
Adder == 1

\* only the added tracks are counted
CountedAddedOnly ==
  /\ adAdded' = IF ixPc'[Adder] = "loop" /\ ixStatus'[Adder] = "added"
                  THEN adAdded + 1 ELSE adAdded
  /\ UNCHANGED <<adSkipped, adIds, adPos>>

\* "added_count += 1" after add_track and "skipped_count += 1" at the three
\* places that end a turn without it
Counted ==
  /\ adAdded' = IF ixPc'[Adder] = "loop" /\ ixStatus'[Adder] = "added"
                  THEN adAdded + 1 ELSE adAdded
  /\ adSkipped' = IF ixPc'[Adder] = "loop" /\ ixStatus'[Adder] = "skipped"
                    THEN adSkipped + 1 ELSE adSkipped
  /\ UNCHANGED <<adIds, adPos>>

\* add_tracks_to_database(request) up to its loop
AddTracksRequest(track_ids) ==
  /\ AddTracksBegin(Adder)
  /\ adIds' = track_ids
  /\ adPos' = 0
  /\ adAdded' = 0
  /\ adSkipped' = 0

\* "for track_id in request.track_ids": the next id
LoopNext ==
  /\ adPos < Len(adIds)
  /\ NextTrack(Adder, adIds[adPos + 1])
  /\ adPos' = adPos + 1
  /\ UNCHANGED <<adIds, adAdded, adSkipped>>

\* the list is exhausted: the response is built
LoopEnd ==
  /\ adPos = Len(adIds)
  /\ AddTracksEnd(Adder)
  /\ UNCHANGED addVars

NextAdd ==
  \/ \E track_ids \in RequestLists : AddTracksRequest(track_ids)
  \/ LoopNext
  \/ LoopEnd
  \/ CheckExists(Adder) /\ Counted
  \/ TrackMetadata(Adder) /\ Counted
  \/ DownloadForAdd(Adder) /\ Counted
  \/ EmbedForAdd(Adder) /\ Counted
  \/ AddTrack(Adder) /\ Counted

SpecAdd ==
  Init /\ [][NextAdd /\ UNCHANGED <<rankVars, searchVars, recVars, orderVars, vdLast,
                                    topVars, genreVars, cacheVars>>]_vars

\* ------------------------------------------------------------------------
\* DeezerService.search_tracks, its cache and the /search route
\* ------------------------------------------------------------------------
\* the query of the calls
CacheQuery == <<"song">>

\* the result dict for the track id, or None (id 0); message says whether the
\* dict has the key 'message'
TrackDict(id) == [id |-> id, message |-> FALSE]

\* track['message'] = ... on the dict the caller was handed
WithMessage(dict) == [dict EXCEPT !.message = TRUE]

\* search_tracks(query, limit, strict, use_cache): the value it returns (ok
\* FALSE: it raises), the cache after it, and whether the cache answered.
\* The dict returned is the object the cache holds whenever use_cache is set.
search_tracks(store, query, limit, strict, use_cache, answer) ==
  LET cache_key == <<query, limit, strict>>
  IN  IF use_cache /\ cache_key \in DOMAIN store
        THEN [ok |-> TRUE, value |-> store[cache_key], store |-> store, cached |-> TRUE]
        ELSE IF ~answer.ok
          THEN [ok |-> FALSE, value |-> TrackDict(0), store |-> store, cached |-> FALSE]
          ELSE [ok |-> TRUE, value |-> TrackDict(answer.id),
                store |-> IF use_cache THEN (cache_key :> TrackDict(answer.id)) @@ store
                          ELSE store,
                cached |-> FALSE]

\* the values stored by a call, remembered as they were
FirstStored(first, store) ==
  [key \in DOMAIN store |-> IF key \in DOMAIN first THEN first[key] ELSE store[key]]

\* a search_tracks call of a caller that leaves the result as it is
SearchTracks(query, limit, strict, use_cache) ==
  \E answer \in TextSearchAnswers :
    LET result == search_tracks(scStore, query, limit, strict, use_cache, answer)
    IN  /\ scStore' = result.store
        /\ scFirst' = FirstStored(scFirst, result.store)
        /\ scLast' = IF result.ok
                       THEN [key |-> <<query, limit, strict>>, cached |-> result.cached,
                             value |-> result.value]
                       ELSE scLast

\* the route search_track(request): search_tracks(request.query, limit=1),
\* 404 without a track, else the message is set on the dict and it is returned
SearchTrackRoute(query) ==
  \E answer \in TextSearchAnswers :
    LET result == search_tracks(scStore, query, 1, FALSE, TRUE, answer)
        cache_key == <<query, 1, FALSE>>
    IN  /\ scFirst' = FirstStored(scFirst, result.store)
        /\ scLast' = IF result.ok
                       THEN [key |-> cache_key, cached |-> result.cached,
                             value |-> result.value]
                       ELSE scLast
        /\ scStore' = IF result.ok /\ result.value.id # 0
                        THEN [result.store EXCEPT ![cache_key] = WithMessage(result.value)]
                        ELSE result.store

NextCache ==
  \/ \E limit \in Limits, strict \in BOOLEAN, use_cache \in BOOLEAN :
       SearchTracks(CacheQuery, limit, strict, use_cache)
  \/ SearchTrackRoute(CacheQuery)

SpecCache ==
  Init /\ [][NextCache /\ UNCHANGED <<rankVars, searchVars, recVars, orderVars, indexVars,
                                      vdLast, topVars, genreVars, addVars>>]_vars

\* ------------------------------------------------------------------------
\* The two sorts side by side: the ranker and the recommendation harness are
\* independent, one of them is called at a time
\* ------------------------------------------------------------------------
NextTies ==
  \/ /\ odPc = "none"
     /\ NextRank
     /\ UNCHANGED orderVars
  \/ /\ rkOp = "none"
     /\ NextOrder
     /\ UNCHANGED rankVars

SpecTies == Init /\ [][NextTies /\ UNCHANGED <<searchVars, recVars, indexVars, vdLast, topVars, genreVars, addVars, cacheVars>>]_vars

\* ------------------------------------------------------------------------
\* Properties of the ranking and of the text search model
\* ------------------------------------------------------------------------
IsExactMatch(query, track) == Normalize(track.title) = Normalize(query)

ExactBeforeFuzzy(query, list) ==
  \A i, j \in 1..Len(list) :
    IsExactMatch(query, list[i]) /\ ~IsExactMatch(query, list[j]) => i < j

SameTracks(s, t) ==
  /\ Len(s) = Len(t)
  /\ { s[i] : i \in 1..Len(s) } = { t[i] : i \in 1..Len(t) }

\* C1: after TrackRanker.rank and after the sort of search_tracks_ranked, the
\* ranked list holds the tracks that were given and every track whose
\* normalized title equals the normalized query stands before every track
\* whose normalized title differs; the returned list keeps that order.
C1_ExactMatchesFirst ==
  rkOp \in {"rank", "ranked"} =>
    /\ SameTracks(rkRanked, rkTracks)
    /\ ExactBeforeFuzzy(rkQuery, rkRanked)
    /\ ExactBeforeFuzzy(rkQuery, rkOut)

\* a ranking whose input had a fuzzy match standing before an exact match
C1_Witness ==
  /\ rkOp = "rank"
  /\ \E i, j \in 1..Len(rkTracks) :
       /\ i < j
       /\ ~IsExactMatch(rkQuery, rkTracks[i])
       /\ IsExactMatch(rkQuery, rkTracks[j])

CountOf(calls, flag) == Cardinality({ i \in 1..Len(calls) : calls[i] = flag })

\* C2: a predict call that missed the cache calls the client once with
\* strict=True, first; the relaxed call is issued exactly once if the strict
\* call returned the empty list, and not at all if it returned tracks.
C2_FallbackOnlyOnEmptyStrict ==
  /\ pdPc = "strict" => pdCalls = <<>>
  /\ pdPc = "relaxed" => pdCalls = <<TRUE>> /\ pdStrict.ok /\ pdStrict.data = <<>>
  /\ (pdPc = "idle" /\ pdCalls # <<>>) =>
       /\ pdCalls[1] = TRUE
       /\ CountOf(pdCalls, TRUE) = 1
       /\ (pdStrict.ok /\ pdStrict.data = <<>>) => CountOf(pdCalls, FALSE) = 1
       /\ (pdStrict.ok /\ pdStrict.data # <<>>) => CountOf(pdCalls, FALSE) = 0

\* a finished call whose strict search was empty and whose relaxed search found tracks
C2_Witness ==
  /\ pdPc = "idle"
  /\ pdCalls = <<TRUE, FALSE>>
  /\ pdStrict.ok /\ pdStrict.data = <<>>
  /\ pdFetched # <<>>

Range(s) == { s[i] : i \in DOMAIN s }

FailureKinds == {"download_failed", "embed_failed"}

\* recommend_by_track_id has returned a list
Returned == rcPc = "done" /\ rcOutcome = "ok"

\* C4: whatever the related-track and chart responses hold, the seed included,
\* no entry of the list returned by recommend_by_track_id has the seed's id.
C4_SeedNeverRecommended ==
  \A i \in DOMAIN rcResult : rcResult[i].id # rcSeed

C4_Witness ==
  /\ Returned
  /\ rcSeedOffered
  /\ rcResult # <<>>

\* C5: the returned list is in non-increasing order of similarity, has at
\* most top_k entries, and no scored candidate left out of it has a greater
\* similarity than an entry of it.
C5_TopKDescending ==
  Returned =>
    /\ \A i, j \in DOMAIN rcResult : i < j => rcResult[i].similarity >= rcResult[j].similarity
    /\ Len(rcResult) <= rcTopK
    /\ \A left \in Range(rcScored) \ Range(rcResult) :
         \A kept \in Range(rcResult) : left.similarity <= kept.similarity

C5_Witness ==
  /\ Returned
  /\ Len(rcScored) = 2
  /\ rcScored[1].similarity < rcScored[2].similarity
  /\ rcResult = <<rcScored[2]>>

\* C6: a candidate whose download or embedding fails is skipped and every
\* candidate after it is still attempted; when some candidates failed and at
\* least one was scored the call returns normally, and the result holds
\* candidates that were scored successfully and nothing else.
C6_FailedCandidateSkipped ==
  /\ "unvisited" \notin Range(rcTried)
  /\ (/\ rcPc = "done"
      /\ Range(rcTried) \cap FailureKinds # {}
      /\ "scored" \in Range(rcTried))
       => /\ rcOutcome = "ok"
          /\ Len(rcTried) = Len(rcPool)
          /\ { e.id : e \in Range(rcScored) }
               = { rcPool[i].id : i \in { j \in DOMAIN rcTried : rcTried[j] = "scored" } }
          /\ Range(rcResult) \subseteq Range(rcScored)
          /\ Len(rcResult) = Min2(rcTopK, Len(rcScored))

C6_Witness ==
  /\ Returned
  /\ Len(rcPool) = 2
  /\ rcTried[1] \in FailureKinds
  /\ rcTried[2] = "scored"
  /\ Len(rcResult) = 1

\* C7: if scoring fails for every candidate of a request, so that no usable
\* candidate remains, recommend_by_track_id fails with an error instead of
\* returning a result.
C7_AllFailedRaises ==
  (/\ rcPc = "done"
   /\ rcPool # <<>>
   /\ Len(rcTried) = Len(rcPool)
   /\ Range(rcTried) \subseteq FailureKinds)
    => rcOutcome # "ok"

\* C8: no download and no embedding is issued for a candidate without a
\* preview URL, whether it came from the related or from the chart tracks, and
\* no such candidate is in the returned list.
C8_NoPreviewNeverScored ==
  /\ \A i \in DOMAIN rcTried :
       ~rcPool[i].preview => rcTried[i] = "skipped"
  /\ \A e \in Range(rcScored) \cup Range(rcResult) : e.preview

C8_Witness ==
  /\ Returned
  /\ Len(rcPool) = 2
  /\ ~rcPool[1].preview
  /\ rcTried = <<"skipped", "scored">>
  /\ rcResult # <<>>

\* C9: given a non-empty track_id, the identification uses the metadata fetch
\* only: neither the text search nor the chart fetch, the query download or
\* the query embedding is invoked, whatever the other inputs are, and no
\* confidence is attached to the recognized track.
C9_TrackIdExclusive ==
  idGiven.track_id # 0 =>
    /\ idCalls \subseteq {"metadata"}
    /\ idConfidence = <<>>
    /\ idEnriched = <<>>
    /\ rcPc \in {"enrich", "rec_start"} => rcSeed = idGiven.track_id

C9_Witness ==
  /\ rcPc = "rec_start"
  /\ idGiven.track_id # 0
  /\ idGiven.song_name
  /\ idGiven.preview_url
  /\ idCalls = {"metadata"}

\* the calls are outside their temporary directory
OutsideTempDir == rcPc \in {"idle", "done", "enrich", "rec_start"}

\* C10: once recommend_by_track_id or _identify_from_audio has returned or
\* raised, none of the audio files it wrote exists any more, on any exit path.
C10_TempFilesRemoved ==
  OutsideTempDir => rcFiles = {}

C10_Witness ==
  /\ rcPc = "done"
  /\ rcOutcome = "error"
  /\ \E f \in rcWritten : f.kind = "candidate"


\* C13: every similarity attached to a scored candidate, to an identified
\* track (its confidence) or to a recommendation lies in [0,1].
C13_ScoresInUnitInterval ==
  /\ \A e \in Range(rcScored) \cup Range(rcResult) : e.similarity \in 0..1
  /\ \A c \in Range(idConfidence) \cup Range(idEnriched) : c \in 0..1


\* no track has been identified or selected yet: the seed is set by the
\* identification and by recommend_by_track_id
NoTrackYet == rcSeed = 0

\* no identifying input was given (the artist alone identifies nothing)
NothingGiven ==
  /\ idGiven.track_id = 0
  /\ ~idGiven.song_name
  /\ ~idGiven.preview_url
  /\ ~idGiven.audio_path

\* the name search was the only strategy selected and it found no track
OnlyNameAndNothingFound ==
  /\ idGiven.track_id = 0
  /\ idGiven.song_name
  /\ ~idGiven.preview_url
  /\ ~idGiven.audio_path
  /\ SearchQuery(idGiven) \in DOMAIN searchCache
  /\ searchCache[SearchQuery(idGiven)] = 0

\* C14: identify_and_recommend fails with the identification error and never
\* calls the recommendation engine when no identifying input is given and
\* when every strategy the inputs select produced no track.
C14_NothingIdentifiedFails ==
  /\ [](NoTrackYet =>
          /\ rcPc \in {"idle", "id_query", "id_chart", "id_score", "done"}
          /\ rcMeta = "unasked"
          /\ (rcPc = "done" /\ (NothingGiven \/ OnlyNameAndNothingFound))
               => rcOutcome = "ValueError")
  /\ [][(rcPc = "id_score" /\ rcPc' = "done" /\ idBest.id = 0)
          => (rcOutcome' = "ValueError" /\ rcSeed' = 0)]_vars

C14_Witness ==
  /\ rcPc = "done"
  /\ NoTrackYet
  /\ rcOutcome = "ValueError"
  /\ idGiven.song_name
  /\ idGiven.preview_url
  /\ idCalls = {"search", "download", "embed", "chart"}

\* C15: a seed whose metadata has no preview URL makes recommend_by_track_id
\* fail with the no-preview error before any download, embedding, related-track
\* fetch or chart fetch.
C15_NoPreviewSeedFailsFirst ==
  rcMeta = "nopreview" =>
    /\ rcPc = "done"
    /\ rcOutcome = "ValueError"
    /\ rcWritten = {}
    /\ rcFiles = {}
    /\ rcSeen = {}
    /\ rcPool = <<>>
    /\ rcTried = <<>>

C15_Witness ==
  /\ rcMeta = "nopreview"
  /\ rcPc = "done"
  /\ rcSeed # 0

\* C16: the candidate pool never holds two tracks with the same id nor a
\* track with the seed's id, whatever the related-track and chart responses hold.
C16_PoolDistinctWithoutSeed ==
  /\ \A i, j \in DOMAIN rcPool : i # j => rcPool[i].id # rcPool[j].id
  /\ \A i \in DOMAIN rcPool : rcPool[i].id # rcSeed

C16_Witness ==
  /\ rcPc = "score"
  /\ rcDupOffered
  /\ Len(rcPool) = 1

\* C17: the candidate pool never holds more than candidate_limit tracks, for
\* every candidate_limit >= 0.
C17_PoolWithinLimit ==
  rcPc \in {"chart", "score"} => Len(rcPool) <= rcLimit

\* C18: with a track_id given, a metadata fetch that fails or yields nothing
\* makes identify_and_recommend fail; neither the name search nor the audio
\* strategy is tried, whatever the other inputs are.
C18_TrackIdFailurePropagates ==
  idGiven.track_id # 0 =>
    /\ rcPc \in {"done", "enrich", "rec_start"}
    /\ NoTrackYet =>
         /\ rcPc = "done"
         /\ rcOutcome \in {"error", "ValueError"}
         /\ idCalls = {"metadata"}

C18_Witness ==
  /\ idGiven.track_id # 0
  /\ idGiven.song_name
  /\ idGiven.preview_url
  /\ rcPc = "done"
  /\ NoTrackYet
  /\ rcOutcome = "ValueError"


\* the two orderings lead to the same list and to the same identified track
SameOutcome ==
  /\ odListFirst = odListSecond
  /\ odBestFirst = odBestSecond

\* no two candidates of the pool have the same similarity
NoTies == \A i, j \in DOMAIN odFirst : i # j => odFirst[i].similarity # odFirst[j].similarity

\* C19 as stated: for any two orderings of one candidate pool with the same
\* per-candidate similarities, recommend_by_track_id returns the same list
\* and _identify_from_audio identifies the same track.
C19_OrderIndependent ==
  odPc = "done" => SameOutcome

\* C19 as amended: the same holds when no two candidates of the pool have the
\* same similarity.
C19_OrderIndependentWithoutTies ==
  (odPc = "done" /\ NoTies) => SameOutcome

C19_Witness ==
  /\ odPc = "done"
  /\ NoTies
  /\ Len(odFirst) = 2
  /\ odFirst[1] = odSecond[2]
  /\ odTopK = 1
  /\ odListFirst = <<odFirst[2]>>
  /\ odBestFirst.id = odFirst[2].id

\* ------------------------------------------------------------------------
\* Properties of the vector index and of the handlers that use it
\* ------------------------------------------------------------------------
FilesOf(p) == { f \in ixFiles : f.owner = p }

\* C11: when a get_recommendations request or an add-tracks request has
\* completed, no temporary file that download_preview created for it exists
\* any more, also when the download failed after the file was created.
C11_TempFilesDeleted ==
  \A p \in Procs : ixPc[p] = "done" => FilesOf(p) = {}

C20_BackendFailureSurfaced == vdLast.failed => vdLast.raised

\* ------------------------------------------------------------------------
\* Properties of the chart pagination
\* ------------------------------------------------------------------------
RECURSIVE FetchedBefore(_, _)
\* the number of tracks the requests before the i-th one have fetched
FetchedBefore(requests, i) ==
  IF i <= 1 THEN 0
  ELSE FetchedBefore(requests, i - 1) + Max2(requests[i - 1].got, 0)

\* C21: get_top_tracks issues no further chart request after a batch that
\* returned fewer tracks than were requested.
C21_StopsAfterShortBatch ==
  \A i \in 1..(Len(tpRequests) - 1) : tpRequests[i].got >= tpRequests[i].limit

GenreCacheOf(by) == IF by = "service" THEN genreCache ELSE clGenreCache

LastCall == pdLog[Len(pdLog)]

\* the last predict call has fetched candidates and returned
FetchedAndReturned ==
  /\ pdPc = "idle"
  /\ pdLog # <<>>
  /\ LastCall.outcome = "ok"
  /\ LastCall.calls # <<>>

\* C23: the list predict returns is a prefix of rank(songName, fetched
\* candidates) and never has more than limit entries, for every limit.
C23_PredictPrefixOfRank ==
  FetchedAndReturned =>
    /\ LastCall.result = Prefix(RankTable[pdSong, pdFetched], Len(LastCall.result))
    /\ Len(LastCall.result) <= pdLimit

\* C23, amended: the list predict returns is the ranked candidate list
\* truncated to max(1, limit): a prefix of rank(songName, fetched candidates)
\* of at most max(1, limit) entries, and all of them if there are fewer.
C23_PredictPrefixOfRankSanitized ==
  FetchedAndReturned =>
    /\ LastCall.result = Prefix(RankTable[pdSong, pdFetched], Max2(1, pdLimit))
    /\ Len(LastCall.result) <= Max2(1, pdLimit)

\* a call that fetched more candidates than max(1, limit) and returned the
\* best one, which the catalog had not listed first
C23_Witness ==
  /\ FetchedAndReturned
  /\ Len(pdFetched) > Max2(1, pdLimit)
  /\ Len(LastCall.result) = Max2(1, pdLimit)
  /\ LastCall.result[1] # pdFetched[1]

\* C27: a predict call that fails, with the ValueError for an empty or blank
\* song name or with the error of the strict or of the relaxed search, leaves
\* the cache as it was; so a call answered from the cache always follows a
\* call with the same key that the catalog client answered.
C27_FailedPredictKeepsCache ==
  /\ [](\A i \in 1..Len(pdLog) :
          pdLog[i].outcome = "ok" /\ pdLog[i].calls = <<>> =>
            \E j \in 1..(i - 1) :
              /\ pdLog[j].key = pdLog[i].key
              /\ pdLog[j].outcome = "ok"
              /\ pdLog[j].calls # <<>>)
  /\ [][Len(pdLog') > Len(pdLog) /\ pdLog'[Len(pdLog')].outcome # "ok"
          => cache' = cache]_vars

\* a call failed in the relaxed search and the next call with the same key
\* queried the client again
C27_Witness ==
  /\ Len(pdLog) = 2
  /\ pdLog[1].outcome = "error" /\ pdLog[1].calls = <<TRUE, FALSE>>
  /\ pdLog[2].key = pdLog[1].key
  /\ pdLog[2].calls # <<>>

\* ------------------------------------------------------------------------
\* Properties of the audio identification over a scored pool
\* ------------------------------------------------------------------------
MaxSimilarity(scored) == SetMax({ scored[i].similarity : i \in 1..Len(scored) })

\* C24: when a candidate was scored above the sentinel -1.0, the audio
\* identification does not end without a track, and the track it identifies
\* is a candidate whose similarity is the largest of all scored candidates,
\* returned with that similarity as confidence; when no candidate was scored
\* above the sentinel, no track is identified and the request fails.
C24_BestIsMaximum ==
  odPc = "done" =>
    IF MaxSimilarity(odFirst) > -1
      THEN /\ odIdentified.outcome # "ValueError"
           /\ odIdentified.outcome = "ok" =>
                /\ \E i \in 1..Len(odFirst) :
                     /\ odFirst[i].id = odIdentified.id
                     /\ odFirst[i].similarity = MaxSimilarity(odFirst)
                /\ odIdentified.confidence = <<MaxSimilarity(odFirst)>>
      ELSE odIdentified = [outcome |-> "ValueError", id |-> 0, confidence |-> <<>>]

\* the best candidate was scored last, after a weaker one
C24_Witness ==
  /\ odPc = "done"
  /\ Len(odFirst) = 2
  /\ odFirst[1].similarity = 0 /\ odFirst[2].similarity = 1
  /\ odIdentified = [outcome |-> "ok", id |-> odFirst[2].id, confidence |-> <<1>>]

\* ------------------------------------------------------------------------
\* Stability of the two sorts
\* ------------------------------------------------------------------------
\* where the element x stands in the sequence s, 0 if nowhere
PositionIn(s, x) ==
  IF \E i \in 1..Len(s) : s[i] = x THEN CHOOSE i \in 1..Len(s) : s[i] = x ELSE 0

SameKey(query, a, b) ==
  LET ka == SortKey(query, a.title)
      kb == SortKey(query, b.title)
  IN  ka.exact = kb.exact /\ ka.sim.num * kb.sim.den = kb.sim.num * ka.sim.den

\* C25: tracks with equal (exact match, similarity) keys stand in the output
\* of TrackRanker.rank in the order they had in its input, and scored
\* candidates with equal similarity stand in the output of
\* recommend_by_track_id in the order they were scored in.
C25_TiesKeepOrder ==
  /\ rkOp \in {"rank", "ranked"} =>
       \A i, j \in 1..Len(rkTracks) :
         i < j /\ SameKey(rkQuery, rkTracks[i], rkTracks[j]) =>
           PositionIn(rkRanked, rkTracks[i]) < PositionIn(rkRanked, rkTracks[j])
  /\ odPc = "done" =>
       \A i, j \in 1..Len(odFirst) :
         /\ i < j
         /\ odFirst[i].similarity = odFirst[j].similarity
         /\ PositionIn(odListFirst, odFirst[j]) # 0
         => /\ PositionIn(odListFirst, odFirst[i]) # 0
            /\ PositionIn(odListFirst, odFirst[i]) < PositionIn(odListFirst, odFirst[j])

\* two candidates with equal similarity have been scored and both returned
C25_Witness ==
  /\ odPc = "done"
  /\ Len(odFirst) = 2
  /\ odFirst[1].similarity = odFirst[2].similarity
  /\ odListFirst = odFirst

\* ------------------------------------------------------------------------
\* Further properties of the identification cascade
\* ------------------------------------------------------------------------
\* an identification by name, without track_id, is in progress or has failed
NamedIdentification ==
  /\ idGiven.track_id = 0
  /\ idGiven.song_name
  /\ rcPc \in {"id_query", "id_chart", "id_score", "enrich", "rec_start", "done"}

AudioCalls == {"download", "embed", "chart"}

\* C26: without a track_id and with a song_name, a text search that returns
\* no track is followed by the audio strategy when a preview_url or an
\* audio_path was supplied and by the no-track failure otherwise; a text
\* search that returns a track is never followed by the audio strategy.
C26_NameThenAudio ==
  NamedIdentification /\ SearchQuery(idGiven) \in DOMAIN searchCache =>
    IF searchCache[SearchQuery(idGiven)] # 0
      THEN /\ idCalls = {"search"}
           /\ rcPc \in {"enrich", "rec_start", "done"}
           /\ rcPc # "done" => rcSeed = searchCache[SearchQuery(idGiven)]
      ELSE IF idGiven.preview_url \/ idGiven.audio_path
        THEN rcPc = "id_query" \/ idCalls \cap AudioCalls # {}
        ELSE rcPc = "done" /\ rcOutcome = "ValueError" /\ idCalls = {"search"}

\* the text search found nothing and the audio strategy identified a track
C26_Witness ==
  /\ NamedIdentification
  /\ SearchQuery(idGiven) \in DOMAIN searchCache
  /\ searchCache[SearchQuery(idGiven)] = 0
  /\ rcPc = "enrich"
  /\ idConfidence # <<>>
  /\ "chart" \in idCalls

C30_CachedValueNeverAltered ==
  /\ \A key \in DOMAIN scStore : scStore[key] = scFirst[key]
  /\ scLast.cached => scLast.value = scFirst[scLast.key]

====
